---------------------------- MODULE Spec2Model ----------------------------
(***************************************************************************)
(* A model of src/projectmanager.py (ProManage): the Task class, the task  *)
(* list with its add / edit / delete handlers, baselines, resource         *)
(* levelling, and the derived views (critical path, dashboard variance,    *)
(* resource histogram).                                                    *)
(*                                                                         *)
(* Dates.  Every datetime the program builds comes from                    *)
(* strptime('%Y-%m-%d') or from adding whole days, so a datetime is a whole *)
(* number of days.  A datetime and its ISO text are different Python        *)
(* values; both are modelled as records [ty, day] that differ in ty.        *)
(*                                                                         *)
(* Lists.  Task.dependencies is a Python list.  No handler mutates a list   *)
(* in place (every handler rebinds task.dependencies to a new list), so the *)
(* lists are modelled by value.                                             *)
(***************************************************************************)
EXTENDS Integers, Sequences, FiniteSets

VARIABLES
    tasks,          \* self.tasks: list of Task
    resources,      \* self.resources: list of names
    baselines,      \* self.baselines: list of lists of Task
    variance,       \* the value update_dashboard puts on the variance card
    critical_ids,   \* the set update_gantt_chart got from get_critical_path
    histogram,      \* what update_resource_histogram computed and handed to ax.bar
    current_folder, \* self.current_folder: "None" until a project folder is chosen
    disk,           \* how the last _save_to_folder left the project's files
    tasks_json,     \* what tasks.json in the project folder holds
    op              \* the handler that ran last, and how it ended

vars == <<tasks, resources, baselines, variance, critical_ids, histogram, current_folder, disk, tasks_json, op>>

-----------------------------------------------------------------------------
(* Bounds of the model *)

MaxTasks == 2       \* tasks in the list, in Spec
MaxBaselines == 2   \* baselines kept, in Spec
MaxDay == 1         \* latest start day levelling may reach, in Spec
MaxListed == 1      \* names in the resource list, in Spec
MaxNodes == 3       \* tasks in the list, in SpecCP
MaxShown == 2       \* tasks in the list, in SpecViews
MaxDashTasks == 3   \* tasks in the list, in SpecDash
MaxHistTasks == 3   \* tasks in the list, in SpecHist
MaxResources == 2   \* names in the resource list, in SpecHist

-----------------------------------------------------------------------------
(* Helpers *)

Range(s) == {s[i] : i \in DOMAIN s}

Max(S) == CHOOSE x \in S : \A y \in S : y <= x

Min(S) == CHOOSE x \in S : \A y \in S : x <= y

RECURSIVE SumSeq(_)
SumSeq(s) == IF s = <<>> THEN 0 ELSE Head(s) + SumSeq(Tail(s))

\* [d for d in s if P(d)]
RECURSIVE Filter(_, _)
Filter(s, keep) ==
    IF s = <<>> THEN <<>>
    ELSE IF Head(s) \in keep THEN <<Head(s)>> \o Filter(Tail(s), keep)
         ELSE Filter(Tail(s), keep)

-----------------------------------------------------------------------------
(* class Task *)

\* Task.id before a handler numbers the task (None)
NoId == -1

DateTime(d) == [ty |-> "datetime", day |-> d]

\* datetime.isoformat(): the ISO text of a datetime
isoformat(dt) == [ty |-> "str", day |-> dt.day]

\* datetime.fromisoformat(): the datetime an ISO text stands for
fromisoformat(s) == [ty |-> "datetime", day |-> s.day]

\* start_date + timedelta(days = n)
AddDays(dt, n) == [dt EXCEPT !.day = @ + n]

\* Task.__init__
Task(name, start_date, duration, assigned_to, priority, status, dependencies, cost, is_milestone) ==
    [name         |-> name,
     start_date   |-> start_date,
     duration     |-> IF is_milestone THEN 0 ELSE duration,
     assigned_to  |-> assigned_to,
     priority     |-> priority,
     status       |-> status,
     dependencies |-> dependencies,
     cost         |-> cost,
     is_milestone |-> is_milestone,
     id           |-> NoId]

\* Task.end_date, in days
end_date(t) == t.start_date.day + t.duration

\* Task.to_dict
to_dict(t) ==
    [name         |-> t.name,
     start_date   |-> isoformat(t.start_date),
     duration     |-> t.duration,
     assigned_to  |-> t.assigned_to,
     priority     |-> t.priority,
     status       |-> t.status,
     dependencies |-> t.dependencies,
     cost         |-> t.cost,
     is_milestone |-> t.is_milestone]

\* Task(**d): the constructor applied to a dict's entries as they are
TaskFromKw(d) ==
    Task(d.name, d.start_date, d.duration, d.assigned_to, d.priority,
         d.status, d.dependencies, d.cost, d.is_milestone)

\* Task.from_dict
from_dict(d) ==
    Task(d.name, fromisoformat(d.start_date), d.duration, d.assigned_to,
         d.priority, d.status, d.dependencies, d.cost, d.is_milestone)

-----------------------------------------------------------------------------
(* get_critical_path                                                       *)
(*                                                                         *)
(* networkx is not part of the repository; nx.DiGraph, topological_sort    *)
(* and dag_longest_path are modelled from the library's documented         *)
(* algorithm.  Which of several tied nodes or predecessors max() returns   *)
(* depends on the order topological_sort yields the nodes in, which the    *)
(* library versions do not agree on: every tie is a nondeterministic       *)
(* choice, and get_critical_path(ts) is the set of values it may return.   *)
(***************************************************************************)

\* mutant: the graph build keeps only the ids below the task's own
KeptDeps_BelowOwnId(ts, t) == {d \in Range(t.dependencies) : d < t.id}

\* the dependency ids the graph build keeps: if dep < len(self.tasks)
KeptDeps(ts, t) == {d \in Range(t.dependencies) : d < Len(ts)}

\* G.add_edge(dep, task.id)
GEdges(ts) == UNION {{<<d, ts[i].id>> : d \in KeptDeps(ts, ts[i])} : i \in DOMAIN ts}

\* G.add_node(task.id); add_edge also adds an end point that is no node yet
GNodes(ts) == {ts[i].id : i \in DOMAIN ts} \cup {e[1] : e \in GEdges(ts)}

DiGraph(ts) == [nodes |-> GNodes(ts), edges |-> GEdges(ts)]

Pred(G, v) == {u \in G.nodes : <<u, v>> \in G.edges}

\* topological_sort (Kahn): the nodes never yielded, because their in-degree
\* never reaches zero
RECURSIVE Unsorted(_, _)
Unsorted(nodes, edges) ==
    LET zero_indegree == {v \in nodes : ~ \E u \in nodes : <<u, v>> \in edges}
    IN  IF zero_indegree = {} THEN nodes
        ELSE Unsorted(nodes \ zero_indegree, edges)

\* topological_sort raises NetworkXUnfeasible: the graph contains a cycle
NetworkXUnfeasible(G) == Unsorted(G.nodes, G.edges) # {}

\* dag_longest_path, data.get(weight, default_weight): weight is the lambda
\* get_critical_path passes; it is used as a key of the edge's attribute
\* dict, which is empty, so every edge weighs default_weight
default_weight == 1

EdgeWeight(ts, u, v) == default_weight

\* dag_longest_path: dist[v][0], the length of the best path ending at v
RECURSIVE DistLen(_, _, _)
DistLen(ts, G, v) ==
    LET us == {DistLen(ts, G, u) + EdgeWeight(ts, u, v) : u \in Pred(G, v)}
    IN  IF us = {} THEN 0
        ELSE IF Max(us) >= 0 THEN Max(us) ELSE 0

\* a dag_longest_path whose walk back may stop at any node
DistPred_StopAnywhere(ts, G, v) ==
    LET us == {DistLen(ts, G, u) + EdgeWeight(ts, u, v) : u \in Pred(G, v)}
    IN  {v} \cup {u \in Pred(G, v) : DistLen(ts, G, u) + EdgeWeight(ts, u, v) = Max(us)}

\* dag_longest_path: the values dist[v][1] may take (v itself at a path's start)
DistPred(ts, G, v) ==
    LET us == {DistLen(ts, G, u) + EdgeWeight(ts, u, v) : u \in Pred(G, v)}
    IN  IF us = {} \/ Max(us) < 0 THEN {v}
        ELSE {u \in Pred(G, v) : DistLen(ts, G, u) + EdgeWeight(ts, u, v) = Max(us)}

\* dag_longest_path: the walk back from v along dist[.][1], reversed
RECURSIVE PathsTo(_, _, _)
PathsTo(ts, G, v) ==
    UNION {IF u = v THEN {<<v>>}
           ELSE {Append(p, v) : p \in PathsTo(ts, G, u)} : u \in DistPred(ts, G, v)}

\* nx.dag_longest_path(G, weight = ...): the paths it may return
dag_longest_path(ts, G) ==
    LET best == Max({DistLen(ts, G, v) : v \in G.nodes})
    IN  UNION {PathsTo(ts, G, v) : v \in {w \in G.nodes : DistLen(ts, G, w) = best}}

\* get_critical_path: the sets it may return
get_critical_path(ts) ==
    IF ts = <<>> THEN {{}}
    ELSE IF NetworkXUnfeasible(DiGraph(ts)) THEN {{}}
    ELSE {Range(p) : p \in dag_longest_path(ts, DiGraph(ts))}

-----------------------------------------------------------------------------
(* update_dashboard: the schedule variance                                 *)
(*                                                                         *)
(* completed / total * progress_days is a float; it is modelled as the     *)
(* exact fraction num / den.  timedelta(days = x) rounds x to whole        *)
(* microseconds (half to even) and keeps (days, seconds, microseconds)     *)
(* normalised with 0 <= seconds < 86400 and 0 <= microseconds < 10^6, so   *)
(* .days is a floor.  A datetime is kept in the same three components.     *)
(***************************************************************************)

SecondsPerDay == 86400

MicrosPerSecond == 1000000

\* the normalisation timedelta's constructor applies
Normalized(d, s, us) ==
    LET s2 == s + (us \div MicrosPerSecond)
    IN  [days         |-> d + (s2 \div SecondsPerDay),
         seconds      |-> s2 % SecondsPerDay,
         microseconds |-> us % MicrosPerSecond]

\* round(num / den), half to even, for den > 0
RoundHalfEven(num, den) ==
    LET q == num \div den
        r == num % den
    IN  IF 2 * r < den THEN q
        ELSE IF 2 * r > den THEN q + 1
        ELSE IF q % 2 = 0 THEN q ELSE q + 1

\* timedelta(days = num / den)
timedelta(num, den) ==
    LET d  == num \div den
        r  == num % den
        s  == (r * SecondsPerDay) \div den
        r2 == (r * SecondsPerDay) % den
    IN  Normalized(d, s, RoundHalfEven(r2 * MicrosPerSecond, den))

\* a whole-day datetime in (days, seconds, microseconds)
Midnight(day) == [days |-> day, seconds |-> 0, microseconds |-> 0]

\* datetime - timedelta, and datetime - datetime
Minus(a, b) == Normalized(a.days - b.days, a.seconds - b.seconds, a.microseconds - b.microseconds)

\* mutant: every task that has been started counts
CountStatus_Started(ts, status) == Cardinality({i \in DOMAIN ts : ts[i].status # "Not Started"})

\* sum(1 for t in self.tasks if t.status == status)
CountStatus(ts, status) == Cardinality({i \in DOMAIN ts : ts[i].status = status})

\* mutant: the variance is what is left of the span after actual_end
Variance_Remaining(ts) ==
    IF ts = <<>> THEN 0
    ELSE LET total           == Len(ts)
             completed       == CountStatus(ts, "Completed")
             planned_end     == Max({end_date(ts[i]) : i \in DOMAIN ts})
             start_date      == Min({ts[i].start_date.day : i \in DOMAIN ts})
             progress_days   == Minus(Midnight(planned_end), Midnight(start_date)).days
             actual_progress == timedelta(completed * progress_days, total)
             actual_end      == Minus(Midnight(planned_end), actual_progress)
         IN  Minus(actual_end, Midnight(start_date)).days

\* an update_dashboard whose variance is that of the list shown before
\* when there are no tasks
Variance_KeptWhenEmpty(ts) ==
    IF ts = <<>> THEN variance
    ELSE LET total           == Len(ts)
             completed       == CountStatus(ts, "Completed")
             planned_end     == Max({end_date(ts[i]) : i \in DOMAIN ts})
             start_date      == Min({ts[i].start_date.day : i \in DOMAIN ts})
             progress_days   == Minus(Midnight(planned_end), Midnight(start_date)).days
             actual_progress == timedelta(completed * progress_days, total)
             actual_end      == Minus(Midnight(planned_end), actual_progress)
         IN  Minus(Midnight(planned_end), actual_end).days

\* update_dashboard: the value of the local variable variance
Variance(ts) ==
    IF ts = <<>> THEN 0
    ELSE LET total           == Len(ts)
             completed       == CountStatus(ts, "Completed")
             planned_end     == Max({end_date(ts[i]) : i \in DOMAIN ts})
             start_date      == Min({ts[i].start_date.day : i \in DOMAIN ts})
             progress_days   == Minus(Midnight(planned_end), Midnight(start_date)).days
             actual_progress == timedelta(completed * progress_days, total)
             actual_end      == Minus(Midnight(planned_end), actual_progress)
         IN  Minus(Midnight(planned_end), actual_end).days

-----------------------------------------------------------------------------
(* update_resource_histogram *)

\* the histogram frame showing "No data for histogram"
NoHistogram == [workload |-> <<>>, unassigned |-> 0, resources |-> <<>>, loads |-> <<>>]

\* list(d.keys()) of a dict built from the list rs: first occurrences, in order
RECURSIVE Keys(_)
Keys(rs) ==
    IF rs = <<>> THEN <<>>
    ELSE LET front == Keys(SubSeq(rs, 1, Len(rs) - 1))
             last  == rs[Len(rs)]
         IN  IF last \in Range(front) THEN front ELSE Append(front, last)

\* mutant: the duration replaces the resource's total instead of adding to it
AddTask_Assign(acc, task) ==
    IF task.assigned_to \in DOMAIN acc.workload
    THEN [acc EXCEPT !.workload[task.assigned_to] = task.duration]
    ELSE [acc EXCEPT !.unassigned = @ + task.duration]

\* one pass of the loop "for task in self.tasks" over the workload dict
AddTask(acc, task) ==
    IF task.assigned_to \in DOMAIN acc.workload
    THEN [acc EXCEPT !.workload[task.assigned_to] = @ + task.duration]
    ELSE [acc EXCEPT !.unassigned = @ + task.duration]

\* the loop "for task in self.tasks", from workload = {r: 0 ...}, unassigned = 0
RECURSIVE Aggregate(_, _)
Aggregate(ts, acc) ==
    IF ts = <<>> THEN acc ELSE Aggregate(Tail(ts), AddTask(acc, Head(ts)))

\* update_resource_histogram: the dict, the total, and the two lists given to ax.bar
Histogram(ts, rs) ==
    IF ts = <<>> \/ rs = <<>> THEN NoHistogram
    ELSE LET agg    == Aggregate(ts, [workload |-> [r \in Range(rs) |-> 0], unassigned |-> 0])
             extra  == agg.unassigned > 0
             labels == Keys(rs) \o (IF extra THEN <<"Unassigned">> ELSE <<>>)
             front  == SubSeq(labels, 1, Len(labels) - 1)
             loads  == [i \in DOMAIN front |-> agg.workload[front[i]]]
                       \o (IF extra THEN <<agg.unassigned>> ELSE <<>>)
         IN  [workload |-> agg.workload, unassigned |-> agg.unassigned,
              resources |-> labels, loads |-> loads]

-----------------------------------------------------------------------------
(* State shared by every specification *)

\* op before any handler has run
Idle == [handler |-> "none", task_id |-> NoId, outcome |-> "none"]

Ran(handler, task_id, outcome) == [handler |-> handler, task_id |-> task_id, outcome |-> outcome]

\* a task of the list as a handler or open_project leaves it: built by
\* Task.__init__ and numbered by its position
ListedTask(i, name, day, duration, assigned_to, priority, status, dependencies, cost, is_milestone) ==
    [Task(name, DateTime(day), duration, assigned_to, priority, status, dependencies, cost, is_milestone)
        EXCEPT !.id = i - 1]

\* the lists of at most two ids out of S, in increasing order
DepLists(S) ==
    {<<>>} \cup {<<a>> : a \in S} \cup {<<e[1], e[2]>> : e \in {x \in S \X S : x[1] < x[2]}}

-----------------------------------------------------------------------------
(* SpecCP: get_critical_path applied to the task lists of up to MaxNodes   *)
(* tasks; a task depends on up to two tasks of the list, or on one id that *)
(* is negative or too large                                                *)
(***************************************************************************)

CPDurations == {1, 3}

CPDepLists(n) == DepLists(0..(n - 1)) \cup {<<-1>>, <<n>>}

\* the task list with the durations and dependency lists f gives
CPTasks(n, f) ==
    [i \in 1..n |-> ListedTask(i, "T", 0, f[i][1], "", "Medium", "Not Started", f[i][2], 0, FALSE)]

InitCP ==
    /\ \E n \in 0..MaxNodes : \E f \in [1..n -> CPDurations \X CPDepLists(n)] : tasks = CPTasks(n, f)
    /\ resources = <<>>
    /\ baselines = <<>>
    /\ variance = 0
    /\ critical_ids = {}
    /\ histogram = NoHistogram
    /\ current_folder = "None"
    /\ disk = "none"
    /\ tasks_json = <<>>
    /\ op = Idle

\* critical_ids = self.get_critical_path()
CriticalPathStep ==
    /\ op = Idle
    /\ critical_ids' \in get_critical_path(tasks)
    /\ op' = Ran("get_critical_path", NoId, "returned")
    /\ UNCHANGED <<tasks, resources, baselines, variance, histogram, current_folder, disk, tasks_json>>

NextCP == CriticalPathStep

SpecCP == InitCP /\ [][NextCP]_vars

-----------------------------------------------------------------------------
(* Claims about get_critical_path *)

\* the ids of the tasks of ts
Ids(ts) == 0..(Len(ts) - 1)

\* the tasks that task id depends on
DependsOn(ts, id) == Range(ts[id + 1].dependencies) \cap Ids(ts)

DepsValid(ts) == \A i \in DOMAIN ts : Range(ts[i].dependencies) \subseteq Ids(ts)

\* the tasks reachable from the set S along at most n dependency links
RECURSIVE Reach(_, _, _)
Reach(ts, S, n) ==
    IF n = 0 THEN S
    ELSE Reach(ts, S \cup UNION {DependsOn(ts, id) : id \in S}, n - 1)

\* some task depends, directly or through others, on itself
HasCycle(ts) == \E id \in Ids(ts) : id \in Reach(ts, DependsOn(ts, id), Len(ts))

\* every dependency chain that ends at task id and starts at a task without dependencies
RECURSIVE ChainsTo(_, _)
ChainsTo(ts, id) ==
    IF DependsOn(ts, id) = {} THEN {<<id>>}
    ELSE UNION {{Append(c, id) : c \in ChainsTo(ts, u)} : u \in DependsOn(ts, id)}

Sinks(ts) == {id \in Ids(ts) : \A other \in Ids(ts) : id \notin DependsOn(ts, other)}

ChainDuration(ts, c) == SumSeq([k \in DOMAIN c |-> ts[c[k] + 1].duration])

\* brute force: the largest summed duration of a source-to-sink chain
LongestChain(ts) == Max({ChainDuration(ts, c) : c \in UNION {ChainsTo(ts, id) : id \in Sinks(ts)}})

\* the summed duration of the tasks whose ids are in the set ids
PathDuration(ts, ids) == SumSeq([i \in DOMAIN ts |-> IF ts[i].id \in ids THEN ts[i].duration ELSE 0])

\* C1: for an acyclic task list, the durations of the tasks on the path
\* get_critical_path returns add up to the longest source-to-sink chain's
\* summed duration, as a brute-force search finds it.
C1_PathIsLongest ==
    (op.handler = "get_critical_path" /\ tasks # <<>> /\ DepsValid(tasks) /\ ~ HasCycle(tasks))
        => PathDuration(tasks, critical_ids) = LongestChain(tasks)

\* C2: when the dependency relation has a cycle, get_critical_path returns
\* (it does not raise) and what it returns is the empty set.
C2_CycleGivesEmpty ==
    (op.handler = "get_critical_path" /\ HasCycle(tasks))
        => (op.outcome = "returned" /\ critical_ids = {})

C2_Witness ==
    /\ op.handler = "get_critical_path"
    /\ Len(tasks) >= 2
    /\ 1 \in DependsOn(tasks, 0)
    /\ 0 \in DependsOn(tasks, 1)
    /\ critical_ids = {}

-----------------------------------------------------------------------------
(* SpecDash: update_dashboard applied to the task lists of up to           *)
(* MaxDashTasks tasks                                                      *)
(***************************************************************************)

DashDays == {0, 2}

DashDurations == {-3, 0, 5, 10}

DashStatuses == {"Not Started", "In Progress", "Completed"}

\* the task list with the start days, durations and statuses f gives
DashTasks(n, f) ==
    [i \in 1..n |-> ListedTask(i, "T", f[i][1], f[i][2], "", "Medium", f[i][3], <<>>, 0, FALSE)]

InitDash ==
    /\ \E n \in 0..MaxDashTasks : \E f \in [1..n -> DashDays \X DashDurations \X DashStatuses] :
          tasks = DashTasks(n, f)
    /\ resources = <<>>
    /\ baselines = <<>>
    /\ variance = 0
    /\ critical_ids = {}
    /\ histogram = NoHistogram
    /\ current_folder = "None"
    /\ disk = "none"
    /\ tasks_json = <<>>
    /\ op = Idle

\* update_dashboard, as far as the variance card
update_dashboard ==
    /\ op = Idle
    /\ variance' = Variance(tasks)
    /\ op' = Ran("update_dashboard", NoId, "returned")
    /\ UNCHANGED <<tasks, resources, baselines, critical_ids, histogram, current_folder, disk, tasks_json>>

NextDash == update_dashboard

SpecDash == InitDash /\ [][NextDash]_vars

-----------------------------------------------------------------------------
(* Claims about the schedule variance *)

\* max end_date - min start_date, in days
SpanDays(ts) == Max({end_date(ts[i]) : i \in DOMAIN ts}) - Min({ts[i].start_date.day : i \in DOMAIN ts})

CompletedCount(ts) == Cardinality({i \in DOMAIN ts : ts[i].status = "Completed"})

\* the least integer that is at least a / b, for b > 0
CeilDiv(a, b) == - ((- a) \div b)

\* C8: for a non-empty task list the variance is the completion ratio times
\* the span in whole days, floor(completed_count * span_days / total_count).
C8_VarianceIsElapsed ==
    (op.handler = "update_dashboard" /\ tasks # <<>>)
        => variance = (CompletedCount(tasks) * SpanDays(tasks)) \div Len(tasks)

\* two tasks spanning day 0 to day 10, 1 of 2 Completed: variance 5
C8_Witness ==
    /\ op.handler = "update_dashboard"
    /\ Len(tasks) = 2
    /\ Min({tasks[i].start_date.day : i \in DOMAIN tasks}) = 0
    /\ Max({end_date(tasks[i]) : i \in DOMAIN tasks}) = 10
    /\ CompletedCount(tasks) = 1
    /\ variance = 5

\* C9 as stated: the variance is span_days * (1 - completed_count/total_count)
\* in whole days: span_days when no task is Completed, 0 when all are.
C9_VarianceIsRemaining ==
    (op.handler = "update_dashboard" /\ tasks # <<>>)
        => /\ variance = RoundHalfEven(SpanDays(tasks) * (Len(tasks) - CompletedCount(tasks)), Len(tasks))
           /\ CompletedCount(tasks) = 0 => variance = SpanDays(tasks)
           /\ CompletedCount(tasks) = Len(tasks) => variance = 0

\* C9 amended: the variance is span_days minus the whole days that are left,
\* span_days - ceil(span_days * (1 - completed_count/total_count)): 0 when no
\* task is Completed, span_days when all are.
C9_VarianceIsSpanMinusRemaining ==
    (op.handler = "update_dashboard" /\ tasks # <<>>)
        => /\ variance = SpanDays(tasks)
                          - CeilDiv(SpanDays(tasks) * (Len(tasks) - CompletedCount(tasks)), Len(tasks))
           /\ CompletedCount(tasks) = 0 => variance = 0
           /\ CompletedCount(tasks) = Len(tasks) => variance = SpanDays(tasks)

C9_Witness ==
    /\ op.handler = "update_dashboard"
    /\ Len(tasks) = 3
    /\ CompletedCount(tasks) = 3
    /\ SpanDays(tasks) = 10
    /\ variance = 10

-----------------------------------------------------------------------------
(* SpecHist: update_resource_histogram applied to the task lists of up to  *)
(* MaxHistTasks tasks and the resource lists of up to MaxResources names   *)
(***************************************************************************)

HistNames == {"Alice", "Bob"}

\* a task is assigned to a resource, to nobody, or to a name that is no resource
HistAssignees == HistNames \cup {"", "Zed"}

HistDurations == {2, 3, 5}

\* the task list with the assignees and durations f gives
HistTasks(n, f) ==
    [i \in 1..n |-> ListedTask(i, "T", 0, f[i][2], f[i][1], "Medium", "Not Started", <<>>, 0, FALSE)]

InitHist ==
    /\ \E n \in 0..MaxHistTasks : \E f \in [1..n -> HistAssignees \X HistDurations] :
          tasks = HistTasks(n, f)
    /\ \E m \in 0..MaxResources : resources \in [1..m -> HistNames]
    /\ baselines = <<>>
    /\ variance = 0
    /\ critical_ids = {}
    /\ histogram = NoHistogram
    /\ current_folder = "None"
    /\ disk = "none"
    /\ tasks_json = <<>>
    /\ op = Idle

\* update_resource_histogram, as far as the call of ax.bar
update_resource_histogram ==
    /\ op = Idle
    /\ histogram' = Histogram(tasks, resources)
    /\ op' = Ran("update_resource_histogram", NoId, "returned")
    /\ UNCHANGED <<tasks, resources, baselines, variance, critical_ids, current_folder, disk, tasks_json>>

NextHist == update_resource_histogram

SpecHist == InitHist /\ [][NextHist]_vars

-----------------------------------------------------------------------------
(* Claims about the workload aggregation *)

\* the summed duration of the tasks of ts assigned to a name in names
AssignedDays(ts, names) ==
    SumSeq([i \in DOMAIN ts |-> IF ts[i].assigned_to \in names THEN ts[i].duration ELSE 0])

AllAssignees(ts) == {ts[i].assigned_to : i \in DOMAIN ts}

\* C10: for non-empty task and resource lists, each resource name gets the
\* summed duration of exactly the tasks assigned to it, and the unassigned
\* bucket the summed duration of all other tasks.
C10_WorkloadPerResource ==
    (op.handler = "update_resource_histogram" /\ tasks # <<>> /\ resources # <<>>)
        => /\ DOMAIN histogram.workload = Range(resources)
           /\ \A r \in Range(resources) : histogram.workload[r] = AssignedDays(tasks, {r})
           /\ histogram.unassigned = AssignedDays(tasks, AllAssignees(tasks) \ Range(resources))

\* Alice 3, Bob 5, nobody 2, with resources [Alice, Bob]
C10_Witness ==
    /\ op.handler = "update_resource_histogram"
    /\ resources = <<"Alice", "Bob">>
    /\ Len(tasks) = 3
    /\ tasks[1].assigned_to = "Alice" /\ tasks[1].duration = 3
    /\ tasks[2].assigned_to = "Bob" /\ tasks[2].duration = 5
    /\ tasks[3].assigned_to = "" /\ tasks[3].duration = 2
    /\ histogram.workload["Alice"] = 3
    /\ histogram.workload["Bob"] = 5
    /\ histogram.unassigned = 2

-----------------------------------------------------------------------------
(* The views and the save a handler ends with *)

\* update_gantt_chart, the baseline overlay: mdates.date2num is given the
\* start_date of every entry of the latest baseline that is no milestone,
\* and raises when that is a str instead of a datetime
GanttRaises(bs) ==
    /\ bs # <<>>
    /\ \E j \in DOMAIN bs[Len(bs)] :
          ~ bs[Len(bs)][j].is_milestone /\ bs[Len(bs)][j].start_date.ty = "str"

\* update_gantt_chart: the critical ids it may get, and whether it raises
update_gantt_chart(ts, bs) ==
    IF ts = <<>> THEN {[critical_ids |-> {}, raised |-> FALSE]}
    ELSE {[critical_ids |-> c, raised |-> GanttRaises(bs)] : c \in get_critical_path(ts)}

\* ax.bar(resources, loads) raises ValueError when the two lists cannot be
\* broadcast to one shape
BarRaises(h) ==
    /\ h # NoHistogram
    /\ Len(h.resources) # Len(h.loads)
    /\ Len(h.resources) # 1
    /\ Len(h.loads) # 1

\* refresh_all: update_dashboard, update_gantt_chart, ...,
\* update_resource_histogram, in this order; what raises ends it
refresh_all(ts, rs, bs, shown) ==
    {[variance     |-> Variance(ts),
      critical_ids |-> g.critical_ids,
      histogram    |-> IF g.raised THEN shown ELSE Histogram(ts, rs),
      raised       |-> IF g.raised THEN "Exception"
                       ELSE IF BarRaises(Histogram(ts, rs)) THEN "ValueError"
                       ELSE "none"] : g \in update_gantt_chart(ts, bs)}

\* _save_to_folder, json.dump([[t.to_dict() for t in b] for b in self.baselines]):
\* to_dict calls start_date.isoformat(), which a str does not have
BaselineDumpRaises(bs) ==
    \E b \in DOMAIN bs : \E j \in DOMAIN bs[b] : bs[b][j].start_date.ty = "str"

\* _save_to_folder: the files are written in turn; an exception is caught and
\* reported, and leaves baselines.json truncated and the later files unwritten
SaveToFolder(bs) == IF BaselineDumpRaises(bs) THEN "partial" ELSE "complete"

\* save_project: without a folder it asks for one (save_project_as), and the
\* user may cancel; with a folder it calls _save_to_folder
save_project(bs, folder, files) ==
    IF folder = "None"
    THEN {[current_folder |-> "None", disk |-> files, saved |-> FALSE],
          [current_folder |-> "chosen", disk |-> SaveToFolder(bs), saved |-> TRUE]}
    ELSE {[current_folder |-> folder, disk |-> SaveToFolder(bs), saved |-> TRUE]}

\* _save_to_folder: json.dump([task.to_dict() for task in self.tasks])
TasksJson(ts) == [i \in DOMAIN ts |-> to_dict(ts[i])]

\* tasks.json after save_project: _save_to_folder writes it before the file
\* of the baselines, so it is written whenever _save_to_folder runs
TasksJsonAfterSave(sv, ts, written) == IF sv.saved THEN TasksJson(ts) ELSE written

\* _save_to_folder ends with update_dashboard when it has written every file
VarianceAfterSave(sv, ts, shown) ==
    IF sv.saved /\ sv.disk = "complete" THEN Variance(ts) ELSE shown

\* self.refresh_all(); self.save_project() at the end of a handler that has
\* changed the task list to ts.  catches: the handler has "except ValueError"
RefreshAndSave(ts, handler, task_id, catches) ==
    \E r \in refresh_all(ts, resources, baselines, histogram) :
        /\ critical_ids' = r.critical_ids
        /\ histogram' = r.histogram
        /\ IF r.raised = "none"
           THEN \E sv \in save_project(baselines, current_folder, disk) :
                    /\ current_folder' = sv.current_folder
                    /\ disk' = sv.disk
                    /\ tasks_json' = TasksJsonAfterSave(sv, ts, tasks_json)
                    /\ variance' = VarianceAfterSave(sv, ts, r.variance)
                    /\ op' = Ran(handler, task_id, "ok")
           ELSE /\ UNCHANGED <<current_folder, disk, tasks_json>>
                /\ variance' = r.variance
                /\ op' = Ran(handler, task_id,
                             IF r.raised = "ValueError" /\ catches THEN "invalid input" ELSE "exception")

-----------------------------------------------------------------------------
(* The dialogs' entries *)

\* what int(), float() or strptime() makes of an entry: a value, or ValueError
Parsed(v) == [ok |-> TRUE, val |-> v]

Unparsable == [ok |-> FALSE, val |-> 0]

\* the same for the dependency entry, a comma-separated list of ints
ParsedList(l) == [ok |-> TRUE, val |-> l]

BaseForm ==
    [name |-> "A", date |-> Parsed(0), duration |-> Parsed(2), cost |-> Parsed(0),
     assigned |-> "", priority |-> "Medium", status |-> "Not Started",
     is_milestone |-> FALSE, deps |-> ParsedList(<<>>)]

\* the entries the dialogs are filled with in Spec
Forms ==
    {[BaseForm EXCEPT !.is_milestone = m, !.priority = p] : m \in BOOLEAN, p \in {"Low", "Medium"}}
    \cup {[BaseForm EXCEPT !.deps = ParsedList(l)] : l \in {<<0>>, <<1>>}}
    \cup {[BaseForm EXCEPT !.cost = Unparsable]}

-----------------------------------------------------------------------------
(* The handlers *)

Init ==
    /\ tasks = <<>>
    /\ resources = <<>>
    /\ baselines = <<>>
    /\ variance = 0
    /\ critical_ids = {}
    /\ histogram = NoHistogram
    /\ current_folder = "None"
    /\ disk = "none"
    /\ tasks_json = <<>>
    /\ op = Idle

\* a handler that reports and returns without changing anything
Reports(handler, task_id, outcome) ==
    /\ op' = Ran(handler, task_id, outcome)
    /\ UNCHANGED <<tasks, resources, baselines, variance, critical_ids, histogram, current_folder, disk, tasks_json>>

\* add_task_dialog.save_task
save_task(f) ==
    IF ~ (f.date.ok /\ f.duration.ok /\ f.cost.ok /\ f.deps.ok)
    THEN Reports("save_task", NoId, "invalid input")
    ELSE IF f.name = ""
    THEN Reports("save_task", NoId, "name required")
    ELSE /\ Len(tasks) < MaxTasks
         /\ LET task == Task(f.name, DateTime(f.date.val), f.duration.val, f.assigned, f.priority,
                             f.status, f.deps.val, f.cost.val, f.is_milestone)
                ts   == Append(tasks, [task EXCEPT !.id = Len(tasks)])
            IN  /\ tasks' = ts
                /\ UNCHANGED <<resources, baselines>>
                /\ RefreshAndSave(ts, "save_task", Len(tasks), TRUE)

\* edit_task_dialog.update_task: the assignments, in order, up to the first
\* entry that raises ValueError
UpdatedTask(t, f) ==
    LET t1 == [t EXCEPT !.name = f.name]
        t2 == [t1 EXCEPT !.start_date = DateTime(f.date.val)]
        t3 == [t2 EXCEPT !.duration = f.duration.val]
        t4 == [t3 EXCEPT !.cost = f.cost.val, !.is_milestone = f.is_milestone,
                         !.assigned_to = f.assigned, !.priority = f.priority, !.status = f.status]
        t5 == [t4 EXCEPT !.dependencies = f.deps.val]
    IN  IF ~ f.date.ok THEN [task |-> t1, raised |-> TRUE]
        ELSE IF ~ f.duration.ok THEN [task |-> t2, raised |-> TRUE]
        ELSE IF ~ f.cost.ok THEN [task |-> t3, raised |-> TRUE]
        ELSE IF ~ f.deps.ok THEN [task |-> t4, raised |-> TRUE]
        ELSE [task |-> t5, raised |-> FALSE]

\* edit_task_dialog.update_task, on the task selected in the tree
update_task(k, f) ==
    LET u  == UpdatedTask(tasks[k + 1], f)
        ts == [tasks EXCEPT ![k + 1] = u.task]
    IN  /\ tasks' = ts
        /\ UNCHANGED <<resources, baselines>>
        /\ IF u.raised
           THEN /\ op' = Ran("update_task", k, "invalid input")
                /\ UNCHANGED <<variance, critical_ids, histogram, current_folder, disk, tasks_json>>
           ELSE RefreshAndSave(ts, "update_task", k, TRUE)

\* a delete_task that empties the dependencies of the tasks left
Deleted_DropDeps(ts, k) ==
    LET rest == [i \in 1..(Len(ts) - 1) |-> IF i < k + 1 THEN ts[i] ELSE ts[i + 1]]
    IN  [i \in DOMAIN rest |-> [rest[i] EXCEPT !.id = i - 1, !.dependencies = <<>>]]

\* a delete_task that leaves the ids and the dependencies as they were
Deleted_KeepIds(ts, k) ==
    [i \in 1..(Len(ts) - 1) |-> IF i < k + 1 THEN ts[i] ELSE ts[i + 1]]

\* delete_task: the list after "del self.tasks[task_id]" and the loop that
\* renumbers the tasks and prunes their dependencies
Deleted(ts, k) ==
    LET rest == [i \in 1..(Len(ts) - 1) |-> IF i < k + 1 THEN ts[i] ELSE ts[i + 1]]
    IN  [i \in DOMAIN rest |->
            [rest[i] EXCEPT !.id = i - 1,
                            !.dependencies = Filter(@, {d \in Range(@) : d < Len(rest)})]]

\* delete_task, on the task selected in the tree, confirmed
delete_task(k) ==
    /\ tasks' = Deleted(tasks, k)
    /\ UNCHANGED <<resources, baselines>>
    /\ RefreshAndSave(Deleted(tasks, k), "delete_task", k, FALSE)

\* a level_resources that moves every task, whatever its priority
Levelled_All(ts) ==
    [i \in DOMAIN ts |-> [ts[i] EXCEPT !.start_date = AddDays(@, 1)]]

\* level_resources: the loop over the tasks
Levelled(ts) ==
    [i \in DOMAIN ts |->
        IF ts[i].priority = "Low" THEN [ts[i] EXCEPT !.start_date = AddDays(@, 1)] ELSE ts[i]]

\* level_resources
level_resources ==
    IF tasks = <<>>
    THEN Reports("level_resources", NoId, "no tasks")
    ELSE /\ \A i \in DOMAIN tasks : tasks[i].priority = "Low" => tasks[i].start_date.day < MaxDay
         /\ tasks' = Levelled(tasks)
         /\ UNCHANGED <<resources, baselines, current_folder, disk, tasks_json>>
         /\ \E r \in refresh_all(Levelled(tasks), resources, baselines, histogram) :
                /\ variance' = r.variance
                /\ critical_ids' = r.critical_ids
                /\ histogram' = r.histogram
                /\ op' = Ran("level_resources", NoId, IF r.raised = "none" THEN "ok" ELSE "exception")

\* create_baseline: baseline = [Task(**t.to_dict()) for t in self.tasks]
Baseline(ts) == [i \in DOMAIN ts |-> TaskFromKw(to_dict(ts[i]))]

\* a create_baseline that puts the new baseline first
WithBaseline_First(bs, ts) == <<Baseline(ts)>> \o bs

\* a create_baseline that keeps the new baseline only
WithBaseline_Only(bs, ts) == <<Baseline(ts)>>

\* create_baseline: self.baselines.append(baseline)
WithBaseline(bs, ts) == Append(bs, Baseline(ts))

\* a create_baseline without the test "if self.tasks"
create_baseline_OfNothing ==
    /\ Len(baselines) < MaxBaselines
    /\ baselines' = WithBaseline(baselines, tasks)
    /\ UNCHANGED <<tasks, resources, histogram>>
    /\ \E sv \in save_project(WithBaseline(baselines, tasks), current_folder, disk) :
           /\ current_folder' = sv.current_folder
           /\ disk' = sv.disk
           /\ tasks_json' = TasksJsonAfterSave(sv, tasks, tasks_json)
           /\ variance' = VarianceAfterSave(sv, tasks, variance)
    /\ \E g \in update_gantt_chart(tasks, WithBaseline(baselines, tasks)) :
           /\ critical_ids' = g.critical_ids
           /\ op' = Ran("create_baseline", NoId, IF g.raised THEN "exception" ELSE "ok")

\* create_baseline
create_baseline ==
    IF tasks = <<>>
    THEN Reports("create_baseline", NoId, "no tasks")
    ELSE /\ Len(baselines) < MaxBaselines
         /\ baselines' = WithBaseline(baselines, tasks)
         /\ UNCHANGED <<tasks, resources, histogram>>
         /\ \E sv \in save_project(WithBaseline(baselines, tasks), current_folder, disk) :
                /\ current_folder' = sv.current_folder
                /\ disk' = sv.disk
                /\ tasks_json' = TasksJsonAfterSave(sv, tasks, tasks_json)
                /\ variance' = VarianceAfterSave(sv, tasks, variance)
         /\ \E g \in update_gantt_chart(tasks, WithBaseline(baselines, tasks)) :
                /\ critical_ids' = g.critical_ids
                /\ op' = Ran("create_baseline", NoId, IF g.raised THEN "exception" ELSE "ok")

\* the names add_resource is given in Spec
ResourceNames == {"Alice"}

\* add_resource, with a name that is not blank
add_resource(name) ==
    /\ Len(resources) < MaxListed
    /\ resources' = Append(resources, name)
    /\ UNCHANGED <<tasks, baselines, critical_ids, histogram>>
    /\ \E sv \in save_project(baselines, current_folder, disk) :
           /\ current_folder' = sv.current_folder
           /\ disk' = sv.disk
           /\ tasks_json' = TasksJsonAfterSave(sv, tasks, tasks_json)
           /\ variance' = VarianceAfterSave(sv, tasks, variance)
    /\ op' = Ran("add_resource", NoId, "ok")

\* remove_resource, on the resource selected in the list, confirmed
remove_resource(i) ==
    /\ resources' = [j \in 1..(Len(resources) - 1) |-> IF j < i THEN resources[j] ELSE resources[j + 1]]
    /\ UNCHANGED <<tasks, baselines, critical_ids, histogram>>
    /\ \E sv \in save_project(baselines, current_folder, disk) :
           /\ current_folder' = sv.current_folder
           /\ disk' = sv.disk
           /\ tasks_json' = TasksJsonAfterSave(sv, tasks, tasks_json)
           /\ variance' = VarianceAfterSave(sv, tasks, variance)
    /\ op' = Ran("remove_resource", NoId, "ok")

Next ==
    \/ \E f \in Forms : save_task(f)
    \/ \E k \in Ids(tasks) : \E f \in Forms : update_task(k, f)
    \/ \E k \in Ids(tasks) : delete_task(k)
    \/ level_resources
    \/ \E name \in ResourceNames : add_resource(name)
    \/ \E i \in DOMAIN resources : remove_resource(i)

Spec == Init /\ [][Next]_vars

\* the entries the dialogs are filled with in SpecBaseline
BaselineForms ==
    {[BaseForm EXCEPT !.priority = "Low"], [BaseForm EXCEPT !.is_milestone = TRUE]}

NextBaseline ==
    \/ \E f \in BaselineForms : save_task(f)
    \/ \E k \in Ids(tasks) : \E f \in BaselineForms : update_task(k, f)
    \/ \E k \in Ids(tasks) : delete_task(k)
    \/ level_resources
    \/ create_baseline

SpecBaseline == Init /\ [][NextBaseline]_vars

-----------------------------------------------------------------------------
(* Claims about the handlers *)

\* C3: deleting task k from a list of N tasks leaves N - 1 tasks whose ids
\* are 0..N-2 in list order, none of them with a dependency of N - 1 or more.
C3_DeleteRenumbers ==
    [][op'.handler = "delete_task"
          => /\ Len(tasks') = Len(tasks) - 1
             /\ \A i \in DOMAIN tasks' :
                   /\ tasks'[i].id = i - 1
                   /\ \A d \in Range(tasks'[i].dependencies) : d < Len(tasks) - 1]_vars

\* the first of two tasks was deleted; the task left, now task 0, keeps the
\* dependency on 0 it had
C3_Witness ==
    /\ op.handler = "delete_task"
    /\ op.task_id = 0
    /\ Len(tasks) = 1
    /\ tasks[1].id = 0
    /\ tasks[1].dependencies = <<0>>

\* C4: whatever Add and Update have done, a task that is a milestone has
\* duration 0.
C4_MilestoneHasNoDuration ==
    \A i \in DOMAIN tasks : tasks[i].is_milestone => tasks[i].duration = 0

\* C5: a baseline that create_baseline has stored stays in the list as it
\* is, its entries and their fields unchanged, whatever handler runs.
C5_BaselinesImmutable ==
    [][\A b \in DOMAIN baselines : b \in DOMAIN baselines' /\ baselines'[b] = baselines[b]]_vars

\* a second baseline was stored after the first, and the tasks have changed
\* in number since the first
C5_Witness ==
    /\ Len(baselines) = 2
    /\ baselines[1] # baselines[2]
    /\ op.handler \in {"save_task", "update_task", "delete_task", "level_resources"}
    /\ Len(tasks) # Len(baselines[2])

\* C6: right after create_baseline on a non-empty list the new baseline has
\* one entry per live task, in order, and every field of an entry (id and
\* start_date included) equals the live task's.
C6_BaselineEqualsTasks ==
    (op.handler = "create_baseline" /\ op.outcome # "no tasks")
        => /\ Len(baselines[Len(baselines)]) = Len(tasks)
           /\ \A i \in DOMAIN tasks : baselines[Len(baselines)][i] = tasks[i]

\* C7: level_resources on a non-empty list moves the start_date of every Low
\* task on by one day and changes nothing else of any task.
C7_LevelMovesLowByOneDay ==
    [][(op'.handler = "level_resources" /\ op'.outcome # "no tasks")
          => /\ Len(tasks') = Len(tasks)
             /\ \A i \in DOMAIN tasks :
                   tasks'[i] = IF tasks[i].priority = "Low"
                               THEN [tasks[i] EXCEPT !.start_date = DateTime(tasks[i].start_date.day + 1)]
                               ELSE tasks[i]]_vars

\* a Low task has been moved to day 1 next to a Medium task still on day 0
C7_Witness ==
    /\ op.handler = "level_resources"
    /\ op.outcome = "ok"
    /\ \E i \in DOMAIN tasks : tasks[i].priority = "Low" /\ tasks[i].start_date = DateTime(1)
    /\ \E i \in DOMAIN tasks : tasks[i].priority = "Medium" /\ tasks[i].start_date = DateTime(0)

-----------------------------------------------------------------------------
(* SpecInput: Add and Update with entries that are empty, negative or      *)
(* cannot be parsed                                                        *)
(***************************************************************************)

\* the dependency entry when int() raises ValueError on one of its parts
UnparsableList == [ok |-> FALSE, val |-> <<>>]

\* entries that differ from BaseForm's in every field Update assigns first
OtherForm ==
    [BaseForm EXCEPT !.name = "B", !.date = Parsed(1), !.duration = Parsed(3), !.status = "In Progress"]

\* the entries the dialogs are filled with in SpecInput
InputForms ==
    {BaseForm, OtherForm,
     [OtherForm EXCEPT !.name = ""],
     [OtherForm EXCEPT !.duration = Parsed(-1)],
     [OtherForm EXCEPT !.cost = Parsed(-1)],
     [OtherForm EXCEPT !.date = Unparsable],
     [OtherForm EXCEPT !.duration = Unparsable],
     [OtherForm EXCEPT !.cost = Unparsable],
     [OtherForm EXCEPT !.deps = UnparsableList]}

NextInput ==
    \/ \E f \in InputForms : save_task(f)
    \/ \E k \in Ids(tasks) : \E f \in InputForms : update_task(k, f)

SpecInput == Init /\ [][NextInput]_vars

-----------------------------------------------------------------------------
(* Claims about the validation of the entries *)

\* an entry that cannot be parsed
HasUnparsable(f) == ~ (f.date.ok /\ f.duration.ok /\ f.cost.ok /\ f.deps.ok)

\* an empty name, a negative duration or a negative cost
EmptyOrNegative(f) ==
    \/ f.name = ""
    \/ f.duration.ok /\ f.duration.val < 0
    \/ f.cost.ok /\ f.cost.val < 0

\* C11: an Add whose input has an empty name, a negative duration or a
\* negative cost is rejected: it appends no task and leaves the task list,
\* the resources and the baselines as they were.
C11_InvalidAddRejected ==
    [][\A f \in InputForms :
          (EmptyOrNegative(f) /\ save_task(f))
              => /\ op'.outcome \in {"invalid input", "name required"}
                 /\ UNCHANGED <<tasks, resources, baselines>>]_vars

\* C12: an Update whose input is invalid (empty name, negative duration or
\* cost, or an entry that cannot be parsed) is rejected and leaves every
\* field of the edited task as it was.
C12_InvalidUpdateChangesNothing ==
    [][\A k \in Ids(tasks) : \A f \in InputForms :
          ((EmptyOrNegative(f) \/ HasUnparsable(f)) /\ update_task(k, f))
              => /\ op'.outcome = "invalid input"
                 /\ tasks' = tasks]_vars

\* C13: create_baseline with an empty task list fails: it appends no
\* baseline and leaves the baseline history as it was.
C13_NoBaselineOfNothing ==
    [][(op'.handler = "create_baseline" /\ tasks = <<>>)
          => /\ op'.outcome = "no tasks"
             /\ baselines' = baselines]_vars

\* create_baseline was refused after the last task of a project that has a
\* baseline was deleted
C13_Witness ==
    /\ op = Ran("create_baseline", NoId, "no tasks")
    /\ tasks = <<>>
    /\ Len(baselines) = 1

-----------------------------------------------------------------------------
(* SpecViews: get_critical_path and update_dashboard applied to the task   *)
(* lists of up to MaxShown tasks, the empty list among them, while the     *)
(* window still shows what an earlier list gave                            *)
(***************************************************************************)

\* the variance the card shows from before
ShownVariances == {0, 5}

\* the critical ids the chart was drawn with before
ShownCriticalIds == {{}, {0}}

InitViews ==
    /\ \E n \in 0..MaxShown : \E f \in [1..n -> DashDays \X DashDurations \X DashStatuses] :
          tasks = DashTasks(n, f)
    /\ resources = <<>>
    /\ baselines = <<>>
    /\ variance \in ShownVariances
    /\ critical_ids \in ShownCriticalIds
    /\ histogram = NoHistogram
    /\ current_folder = "None"
    /\ disk = "none"
    /\ tasks_json = <<>>
    /\ op = Idle

NextViews ==
    \/ CriticalPathStep
    \/ update_dashboard

SpecViews == InitViews /\ [][NextViews]_vars

\* C14: with an empty task list get_critical_path returns the empty set and
\* update_dashboard computes the variance 0; both return, neither raises.
C14_EmptyListIsDefined ==
    tasks = <<>>
        => /\ op.handler = "get_critical_path" => (op.outcome = "returned" /\ critical_ids = {})
           /\ op.handler = "update_dashboard" => (op.outcome = "returned" /\ variance = 0)

C14_Witness ==
    /\ tasks = <<>>
    /\ op = Ran("update_dashboard", NoId, "returned")
    /\ variance = 0
    /\ critical_ids = {0}

-----------------------------------------------------------------------------
(* Claims about the dependency links *)

\* the task that was at position i of the list before task k was deleted
Survivor(ts, k, i) == ts[IF i < k + 1 THEN i ELSE i + 1]

\* the id that a task with id d has after task k was deleted
IdAfterDelete(k, d) == IF d > k THEN d - 1 ELSE d

\* C15: after task k is deleted, the dependencies of a surviving task are
\* the ids, after renumbering, of the tasks it depended on before, the
\* deleted task left out.
C15_DeleteKeepsLinks ==
    [][(op'.handler = "delete_task" /\ DepsValid(tasks))
          => \A i \in DOMAIN tasks' :
                Range(tasks'[i].dependencies)
                    = {IdAfterDelete(op'.task_id, d) :
                          d \in Range(Survivor(tasks, op'.task_id, i).dependencies) \ {op'.task_id}}]_vars

\* C16: whatever Add, Update and Delete have done, every id in a task's
\* dependencies is the id of a task of the list.
C16_DependenciesExist ==
    \A i \in DOMAIN tasks : Range(tasks[i].dependencies) \subseteq Ids(tasks)

\* C17: whatever Add, Update and Delete have done, no task depends on itself.
C17_NoSelfDependency ==
    \A i \in DOMAIN tasks : tasks[i].id \notin Range(tasks[i].dependencies)

-----------------------------------------------------------------------------
(* SpecLoad: Add, Update, Delete and open_project *)

\* the task lists whose tasks.json the folders of SpecLoad hold
SavedLists ==
    {<<>>,
     <<ListedTask(1, "A", 0, 2, "", "Medium", "Not Started", <<>>, 0, FALSE)>>,
     <<ListedTask(1, "A", 0, 2, "", "Low", "Completed", <<1>>, 0, FALSE),
       ListedTask(2, "B", 1, 3, "Alice", "Medium", "Not Started", <<>>, 0, TRUE)>>}

\* the folders open_project is pointed at: with project.json, tasks.json and
\* resources.json as _save_to_folder writes them (baselines.json holding no
\* baseline), or without a project.json
Folders ==
    {[project |-> TRUE, tasks |-> TasksJson(ts), resources |-> rs, baselines |-> <<>>] :
        ts \in SavedLists, rs \in {<<>>, <<"Alice">>}}
    \cup {[project |-> FALSE, tasks |-> <<>>, resources |-> <<>>, baselines |-> <<>>]}

\* an open_project that leaves the tasks as Task.from_dict makes them
LoadedTasks_Unnumbered(task_data) == [i \in DOMAIN task_data |-> from_dict(task_data[i])]

\* open_project: self.tasks = [Task.from_dict(t) for t in task_data], then
\* task.id = i for every task
LoadedTasks(task_data) ==
    [i \in DOMAIN task_data |-> [from_dict(task_data[i]) EXCEPT !.id = i - 1]]

\* open_project: self.baselines = [[Task.from_dict(bt) for bt in b] for b in b_data]
LoadedBaselines(b_data) ==
    [b \in DOMAIN b_data |-> [j \in DOMAIN b_data[b] |-> from_dict(b_data[b][j])]]

\* open_project, with the folder the user chooses
open_project(folder) ==
    IF ~ folder.project
    THEN Reports("open_project", NoId, "invalid folder")
    ELSE /\ tasks' = LoadedTasks(folder.tasks)
         /\ resources' = folder.resources
         /\ baselines' = LoadedBaselines(folder.baselines)
         /\ current_folder' = "chosen"
         /\ UNCHANGED disk
         /\ tasks_json' = folder.tasks
         /\ \E r \in refresh_all(LoadedTasks(folder.tasks), folder.resources,
                                 LoadedBaselines(folder.baselines), histogram) :
                /\ variance' = r.variance
                /\ critical_ids' = r.critical_ids
                /\ histogram' = r.histogram
                /\ op' = Ran("open_project", NoId, IF r.raised = "none" THEN "ok" ELSE "failed to load")

NextLoad ==
    \/ \E f \in Forms : save_task(f)
    \/ \E k \in Ids(tasks) : \E f \in Forms : update_task(k, f)
    \/ \E k \in Ids(tasks) : delete_task(k)
    \/ \E folder \in Folders : open_project(folder)

SpecLoad == Init /\ [][NextLoad]_vars

\* C18: whatever Add, Update, Delete and open_project have done, the task at
\* list position i has id i; an Add that appends gives the new task the
\* list's size before as its id, puts it last and changes no other task.
C18_IdsArePositions ==
    [][/\ \A i \in DOMAIN tasks' : tasks'[i].id = i - 1
       /\ (op'.handler = "save_task" /\ tasks' # tasks)
             => /\ Len(tasks') = Len(tasks) + 1
                /\ tasks'[Len(tasks')].id = Len(tasks)
                /\ SubSeq(tasks', 1, Len(tasks)) = tasks]_vars

\* a project folder with two tasks has been opened
C18_Witness ==
    /\ op = Ran("open_project", NoId, "ok")
    /\ Len(tasks) = 2
    /\ tasks[1].name = "A"
    /\ tasks[1].id = 0
    /\ tasks[2].name = "B"
    /\ tasks[2].id = 1

-----------------------------------------------------------------------------
(* Claims about the graph and the histogram's lists *)

\* C19: get_critical_path leaves out every dependency id that is not the id
\* of a task of the list, so every id in the set it returns is the id of a
\* task of the list, also when dependencies are negative or too large.
C19_PathIdsExist ==
    op.handler = "get_critical_path" => critical_ids \subseteq Ids(tasks)

\* C20: for non-empty task and resource lists every resource name is
\* reported with its total, and the loads handed to ax.bar are one value
\* per label, whether the unassigned total is 0 or not.
C20_OneLoadPerLabel ==
    (op.handler = "update_resource_histogram" /\ tasks # <<>> /\ resources # <<>>)
        => /\ Len(histogram.loads) = Len(histogram.resources)
           /\ \A r \in Range(resources) :
                 \E i \in DOMAIN histogram.resources \cap DOMAIN histogram.loads :
                     /\ histogram.resources[i] = r
                     /\ histogram.loads[i] = AssignedDays(tasks, {r})

-----------------------------------------------------------------------------
(* Claims about the shape of the critical path *)

\* C21: for a non-empty acyclic task list with valid dependencies the set
\* get_critical_path returns is the node set of one dependency chain: its
\* tasks can be put in an order in which the first has no dependencies and
\* each other one lists the one before it in its dependencies.
C21_PathIsOneChain ==
    (op.handler = "get_critical_path" /\ tasks # <<>> /\ DepsValid(tasks) /\ ~ HasCycle(tasks))
        => \E id \in Ids(tasks) : \E c \in ChainsTo(tasks, id) :
              /\ Range(c) = critical_ids
              /\ Len(c) = Cardinality(critical_ids)
              /\ tasks[c[1] + 1].dependencies = <<>>
              /\ \A j \in 2..Len(c) : c[j - 1] \in Range(tasks[c[j] + 1].dependencies)

\* the chain 0, 1, 2 was returned for three tasks of which task 2 also
\* depends on task 0 directly
C21_Witness ==
    /\ op.handler = "get_critical_path"
    /\ Len(tasks) = 3
    /\ tasks[2].dependencies = <<0>>
    /\ tasks[3].dependencies = <<0, 1>>
    /\ critical_ids = {0, 1, 2}

-----------------------------------------------------------------------------
(* Claims about the baseline history and the persisted task record *)

\* C22: the number of baselines never goes down; a create_baseline that
\* stores a baseline appends exactly one, after the ones there were, so the
\* last baseline, the one the Gantt chart compares with, is the newest.
C22_BaselinesOnlyAppended ==
    [][/\ Len(baselines') >= Len(baselines)
       /\ (op'.handler = "create_baseline" /\ op'.outcome # "no tasks")
             => /\ Len(baselines') = Len(baselines) + 1
                /\ SubSeq(baselines', 1, Len(baselines)) = baselines
                /\ Len(baselines'[Len(baselines')]) = Len(tasks)
                /\ \A i \in DOMAIN tasks :
                      /\ baselines'[Len(baselines')][i].name = tasks[i].name
                      /\ baselines'[Len(baselines')][i].priority = tasks[i].priority
                      /\ baselines'[Len(baselines')][i].is_milestone = tasks[i].is_milestone]_vars

\* a second baseline, of two tasks, was appended to a first one of one task
C22_Witness ==
    /\ op.handler = "create_baseline"
    /\ op.outcome # "no tasks"
    /\ Len(baselines) = 2
    /\ Len(baselines[1]) = 1
    /\ Len(baselines[2]) = 2
    /\ Len(tasks) = 2

\* C23: for every task of every reachable state, Task.from_dict of its
\* to_dict has the task's name, start_date, duration, is_milestone,
\* assigned_to, priority, status, dependencies and cost.
C23_RecordRoundTrips ==
    \A i \in DOMAIN tasks :
        LET back == from_dict(to_dict(tasks[i]))
        IN  /\ back.name = tasks[i].name
            /\ back.start_date = tasks[i].start_date
            /\ back.duration = tasks[i].duration
            /\ back.is_milestone = tasks[i].is_milestone
            /\ back.assigned_to = tasks[i].assigned_to
            /\ back.priority = tasks[i].priority
            /\ back.status = tasks[i].status
            /\ back.dependencies = tasks[i].dependencies
            /\ back.cost = tasks[i].cost

-----------------------------------------------------------------------------
(* Claims about saving and about what the window shows *)

\* C24: Add, Update, Delete, Level and create_baseline call save_project
\* after they have changed the tasks or the baselines and before they
\* return: once one of them has returned in a project that has a folder,
\* tasks.json holds the task list as it is in memory.
C24_MutationsAreSaved ==
    (/\ op.handler \in {"save_task", "update_task", "delete_task", "level_resources", "create_baseline"}
     /\ current_folder # "None")
        => tasks_json = [i \in DOMAIN tasks |-> to_dict(tasks[i])]

\* C26: when every dependency id is valid, no task depends on itself and
\* the dependencies have no cycle, they have no cycle after delete_task
\* either, and get_critical_path of the tasks left, if any, is not empty.
C26_DeleteKeepsAcyclic ==
    [][(/\ op'.handler = "delete_task"
        /\ DepsValid(tasks)
        /\ \A i \in DOMAIN tasks : tasks[i].id \notin Range(tasks[i].dependencies)
        /\ ~ HasCycle(tasks))
          => /\ ~ HasCycle(tasks')
             /\ tasks' # <<>> => critical_ids' # {}]_vars

\* C27: with a project folder set, _save_to_folder writes every file of the
\* project from the state in memory, also right after create_baseline; it
\* never stops part-way and leaves a file truncated or unwritten.
C27_SaveCompletes ==
    disk # "partial"

-----------------------------------------------------------------------------
(* SpecStatus: Add, Update, Delete and Level with tasks that are Completed, *)
(* so that the variance on the dashboard is not 0                          *)
(***************************************************************************)

\* the entries the dialogs are filled with in SpecStatus
StatusForms ==
    {[BaseForm EXCEPT !.status = "Completed"],
     [BaseForm EXCEPT !.status = "Completed", !.duration = Parsed(-3)],
     [BaseForm EXCEPT !.priority = "Low"],
     [BaseForm EXCEPT !.duration = Parsed(5), !.cost = Unparsable]}

NextStatus ==
    \/ \E f \in StatusForms : save_task(f)
    \/ \E k \in Ids(tasks) : \E f \in StatusForms : update_task(k, f)
    \/ \E k \in Ids(tasks) : delete_task(k)
    \/ level_resources

SpecStatus == Init /\ [][NextStatus]_vars

\* the variance update_dashboard computes from the task list ts
Recomputed(ts) == IF ts = <<>> THEN 0 ELSE (CompletedCount(ts) * SpanDays(ts)) \div Len(ts)

\* C25: after Add, Update (one that ends in an input error too), Delete or
\* Level has returned, the variance the dashboard shows is the one
\* recomputed from the task list as it is now.
C25_DashboardIsCurrent ==
    op.handler \in {"save_task", "update_task", "delete_task", "level_resources"}
        => variance = Recomputed(tasks)

\* C29: whatever Add, Update, Delete and Level have done, the variance
\* update_dashboard computes is at least 0 and at most span_days.
C29_VarianceWithinSpan ==
    (op.handler \in {"save_task", "update_task", "delete_task", "level_resources"} /\ op.outcome = "ok" /\ tasks # <<>>)
        => (0 <= variance /\ variance <= SpanDays(tasks))

-----------------------------------------------------------------------------
(* SpecDelete: delete_task in a project with dependencies, resources and   *)
(* baselines                                                               *)
(***************************************************************************)

\* the entries the Add dialog is filled with in SpecDelete
DeleteForms ==
    {BaseForm} \cup {[BaseForm EXCEPT !.name = "B", !.deps = ParsedList(l)] : l \in {<<0>>, <<1>>}}

NextDelete ==
    \/ \E f \in DeleteForms : save_task(f)
    \/ \E k \in Ids(tasks) : delete_task(k)
    \/ create_baseline
    \/ \E name \in ResourceNames : add_resource(name)

SpecDelete == Init /\ [][NextDelete]_vars

\* the entries of the list l that are less than n, in their order
Below(l, n) == SelectSeq(l, LAMBDA d : d < n)

-----------------------------------------------------------------------------
(* SpecStats: show_project_statistics in a project of tasks and milestones *)

\* show_project_statistics: total_duration and the two operands of the
\* division that gives avg_duration
Statistics(ts) ==
    LET counted == {i \in DOMAIN ts : ~ ts[i].is_milestone}
    IN  [total_duration |-> SumSeq([i \in DOMAIN ts |-> IF i \in counted THEN ts[i].duration ELSE 0]),
         divisor        |-> Cardinality(counted)]

\* show_project_statistics
show_project_statistics ==
    /\ op' = Ran("show_project_statistics", NoId,
                 IF tasks = <<>> THEN "no data"
                 ELSE IF Statistics(tasks).divisor = 0 THEN "ZeroDivisionError"
                 ELSE "ok")
    /\ UNCHANGED <<tasks, resources, baselines, variance, critical_ids, histogram, current_folder, disk, tasks_json>>

NextStats ==
    \/ \E f \in BaselineForms : save_task(f)
    \/ \E k \in Ids(tasks) : \E f \in BaselineForms : update_task(k, f)
    \/ \E k \in Ids(tasks) : delete_task(k)
    \/ show_project_statistics

SpecStats == Init /\ [][NextStats]_vars

\* C30: show_project_statistics computes its totals and the average task
\* duration without an error for every non-empty task list, also when every
\* task is a milestone.
C30_StatisticsNeverFail ==
    (op.handler = "show_project_statistics" /\ tasks # <<>>) => op.outcome = "ok"

=============================================================================
